---- MODULE Spec2Model ----
(***************************************************************************)
(* The PayPal vault relay of src/server.js.  The file holds two versions   *)
(* of the server (lines 1-319 and lines 321-609); `version` says which of  *)
(* the two is the one serving.  Each inbound HTTP request occupies one     *)
(* slot of `req`; a handler runs from its entry to its first await in one  *)
(* step, and from one await to the next (or to its response) in one step.  *)
(* The remote processor is the environment: every upstream call is         *)
(* answered by a 2xx reply, a non-2xx reply, or a transport failure.       *)
(***************************************************************************)
EXTENDS Integers, Sequences, FiniteSets, TLC

\* Bounds of the model.
MaxReq == 2       \* inbound requests, numbered in order of arrival
MaxLen == 1       \* longest caller-supplied string
MaxClock == 1     \* largest value Date.now() returns

\* ---------------------------------------------------------------------------
\* JavaScript values supplied by callers.  A string is a sequence of symbols.
\* ---------------------------------------------------------------------------
Chars == {"a", "&"}
Strs == UNION {[1..n -> Chars] : n \in 0..MaxLen}

Undefined == [type |-> "undefined"]
Null == [type |-> "null"]
Str(s) == [type |-> "string", chars |-> s]

\* What express.json() can put in a body field (its strings reach the remote
\* processor JSON-encoded, so their symbols do not matter), express' query
\* parser in a query parameter, and the router in a path parameter (never
\* empty).
BodyVals == {Undefined, Null, Str(<<>>), Str(<<"a">>)}
QueryVals == {Undefined} \cup {Str(s) : s \in Strs}
PathVals == {Str(s) : s \in Strs \ {<<>>}}

\* JavaScript truthiness: `if (x)`, `!x`, `x || y`.
Truthy(v) == v.type = "string" /\ v.chars # <<>>

\* `${x}` inside a template literal.
ToChars(v) ==
  CASE v.type = "string" -> v.chars
    [] v.type = "null" -> <<"null">>
    [] OTHER -> <<"undefined">>

\* The Host header and protocol of the inbound request.
Hosts == {"http://host"}

\* What the remote processor can answer.
Tokens == {"T1", "T2"}
IdTokens == {"J1"}
Datas == {"D1"}
ErrBodies == {"E1"}

\* A rejected axios promise: error.response is set for a non-2xx reply and
\* unset for a transport failure; error.message is always set.
HttpError(b) == [hasResponse |-> TRUE, data |-> b, message |-> "Request failed with status code"]
NetworkError == [hasResponse |-> FALSE, data |-> "none", message |-> "Network Error"]
LocalError(m) == [hasResponse |-> FALSE, data |-> "none", message |-> m]
Failures == {HttpError(b) : b \in ErrBodies} \cup {NetworkError}

\* error.response?.data || error.message
ErrorDetail(err) == IF err.hasResponse THEN err.data ELSE err.message

\* JSON.stringify of an object: members whose value is undefined are dropped.
JsonObject(o) == [k \in {f \in DOMAIN o : o[f] # Undefined} |-> o[k]]

\* ---------------------------------------------------------------------------
\* application/x-www-form-urlencoded, as the receiver of the body reads it:
\* pairs separated by "&", key and value separated by the first "=".
\* ---------------------------------------------------------------------------
Positions(s, c) == {i \in 1..Len(s) : s[i] = c}
FirstPos(s, c) == CHOOSE i \in Positions(s, c) : \A j \in Positions(s, c) : i <= j

RECURSIVE SplitOn(_, _)
SplitOn(s, c) ==
  IF Positions(s, c) = {} THEN <<s>>
  ELSE <<SubSeq(s, 1, FirstPos(s, c) - 1)>>
         \o SplitOn(SubSeq(s, FirstPos(s, c) + 1, Len(s)), c)

PairKey(p) == IF Positions(p, "=") = {} THEN p ELSE SubSeq(p, 1, FirstPos(p, "=") - 1)
PairValue(p) == IF Positions(p, "=") = {} THEN <<>> ELSE SubSeq(p, FirstPos(p, "=") + 1, Len(p))

FormPairs(body) == SplitOn(body, "&")
FormValues(body, key) ==
  {PairValue(FormPairs(body)[i]) : i \in {j \in 1..Len(FormPairs(body)) : PairKey(FormPairs(body)[j]) = <<key>>}}

\* ---------------------------------------------------------------------------
\* Upstream calls, as each function and handler builds them.
\* ---------------------------------------------------------------------------
BasicAuth == [scheme |-> "Basic", credentials |-> "base64(id:secret)"]
Bearer(accessToken) == [scheme |-> "Bearer", credentials |-> accessToken]

\* getPayPalAccessToken: the client-credentials exchange.
AccessTokenCall ==
  [kind |-> "oauth2/token", method |-> "post",
   headers |-> [Authorization |-> BasicAuth],
   data |-> <<"grant_type", "=", "client_credentials">>]

\* generateUserIdToken: postData, with target_customer_id appended as is.
UserIdTokenPostData(customerId) ==
  <<"grant_type", "=", "client_credentials", "&", "response_type", "=", "id_token">>
    \o (IF Truthy(customerId)
        THEN <<"&", "target_customer_id", "=">> \o ToChars(customerId)
        ELSE <<>>)

UserIdTokenCall(customerId) ==
  [kind |-> "oauth2/token", method |-> "post",
   headers |-> [Authorization |-> BasicAuth],
   data |-> UserIdTokenPostData(customerId)]

RequestId(prefix, t) == [prefix |-> prefix, time |-> t]

\* A setup-token payload that binds the customer whether or not one was given.
SetupTokenPayloadAlwaysCustomer(customerId, host) ==
  [payment_source |->
     [paypal |->
       [usage_type |-> "MERCHANT",
        customer_type |-> "CONSUMER",
        experience_context |->
          [shipping_preference |-> "NO_SHIPPING",
           return_url |-> <<host, "/vault-success">>,
           cancel_url |-> <<host, "/vault-cancel">>]]],
   customer |-> [id |-> customerId]]

\* POST /api/setup-tokens: payload.
SetupTokenPayload(customerId, host) ==
  LET payload ==
        [payment_source |->
          [paypal |->
            [usage_type |-> "MERCHANT",
             customer_type |-> "CONSUMER",
             experience_context |->
               [shipping_preference |-> "NO_SHIPPING",
                return_url |-> <<host, "/vault-success">>,
                cancel_url |-> <<host, "/vault-cancel">>]]]]
  IN IF Truthy(customerId)
     THEN [payment_source |-> payload.payment_source, customer |-> [id |-> customerId]]
     ELSE payload

\* POST /api/payment-tokens: the data of the vault call.
PaymentTokenPayload(setupTokenId) ==
  [payment_source |-> [token |-> [id |-> setupTokenId, type |-> "SETUP_TOKEN"]]]

PurchaseUnits(description) ==
  <<[amount |-> [currency_code |-> "JPY", value |-> "100"], description |-> description]>>

VaultAttributes ==
  [store_in_vault |-> "ON_SUCCESS", usage_type |-> "MERCHANT", customer_type |-> "CONSUMER"]

VaultAttributesFor(customerId) ==
  [store_in_vault |-> "ON_SUCCESS", usage_type |-> "MERCHANT", customer_type |-> "CONSUMER",
   customer_id |-> customerId]

ExperienceContext(host) ==
  [payment_method_preference |-> "IMMEDIATE_PAYMENT_REQUIRED",
   brand_name |-> "PayPal Vault Demo",
   locale |-> "ja-JP",
   landing_page |-> "LOGIN",
   shipping_preference |-> "NO_SHIPPING",
   user_action |-> "PAY_NOW",
   return_url |-> <<host, "/success">>,
   cancel_url |-> <<host, "/cancel">>]

\* An order payload that keeps the redirect flow beside the vaulted token.
OrderPayloadBothSources(customerId, vaultId, host) ==
  [intent |-> "CAPTURE",
   purchase_units |-> PurchaseUnits(IF Truthy(vaultId) THEN "saved" ELSE "new"),
   payment_source |->
     IF Truthy(vaultId)
     THEN [token |-> [id |-> vaultId, type |-> "PAYMENT_METHOD_TOKEN"],
           paypal |-> [experience_context |-> ExperienceContext(host)]]
     ELSE [paypal |->
            [experience_context |-> ExperienceContext(host),
             attributes |->
               [vault |-> IF Truthy(customerId)
                          THEN VaultAttributesFor(customerId)
                          ELSE VaultAttributes]]]]

\* POST /api/orders: orderPayload (the same in both versions).
OrderPayload(customerId, vaultId, host) ==
  IF Truthy(vaultId)
  THEN [intent |-> "CAPTURE",
        purchase_units |-> PurchaseUnits("saved"),
        payment_source |->
          [token |-> [id |-> vaultId, type |-> "PAYMENT_METHOD_TOKEN"]]]
  ELSE [intent |-> "CAPTURE",
        purchase_units |-> PurchaseUnits("new"),
        payment_source |->
          [paypal |->
            [experience_context |-> ExperienceContext(host),
             attributes |->
               [vault |-> IF Truthy(customerId)
                          THEN VaultAttributesFor(customerId)
                          ELSE VaultAttributes]]]]

\* The upstream calls the handlers issue with the bearer token.  `kind` names
\* the remote endpoint of the url; `t` is the value Date.now() returned.
SetupTokenCall(accessToken, customerId, host, t) ==
  [kind |-> "vault/setup-tokens", method |-> "post",
   url |-> <<"/v3/vault/setup-tokens">>,
   headers |-> [Authorization |-> Bearer(accessToken),
                PayPalRequestId |-> RequestId("SETUP-", t)],
   data |-> SetupTokenPayload(customerId, host)]

PaymentTokenCall(accessToken, setupTokenId, t) ==
  [kind |-> "vault/payment-tokens", method |-> "post",
   url |-> <<"/v3/vault/payment-tokens">>,
   headers |-> [Authorization |-> Bearer(accessToken),
                PayPalRequestId |-> RequestId("PMTOKEN-", t)],
   data |-> PaymentTokenPayload(setupTokenId)]

ListPaymentTokensCall(accessToken, customerId) ==
  [kind |-> "vault/payment-tokens", method |-> "get",
   url |-> <<"/v3/vault/payment-tokens?customer_id=">> \o ToChars(customerId),
   headers |-> [Authorization |-> Bearer(accessToken)]]

OrderCall(accessToken, customerId, vaultId, host, t) ==
  [kind |-> "checkout/orders", method |-> "post",
   url |-> <<"/v2/checkout/orders">>,
   headers |-> [Authorization |-> Bearer(accessToken),
                PayPalRequestId |-> RequestId("ORDER-", t)],
   data |-> OrderPayload(customerId, vaultId, host)]

CaptureCall(accessToken, orderId, t) ==
  [kind |-> "checkout/orders/capture", method |-> "post",
   url |-> <<"/v2/checkout/orders/">> \o ToChars(orderId) \o <<"/capture">>,
   headers |-> [Authorization |-> Bearer(accessToken),
                PayPalRequestId |-> RequestId("CAPTURE-", t)]]

\* ---------------------------------------------------------------------------
\* State.
\* ---------------------------------------------------------------------------
VARIABLES
  version,               \* which of the two servers of the file is serving
  PAYPAL_CLIENT_ID,      \* process.env.PAYPAL_CLIENT_ID
  PAYPAL_CLIENT_SECRET,  \* process.env.PAYPAL_CLIENT_SECRET
  now,                   \* the last value Date.now() returned
  req                    \* the inbound requests, by order of arrival

vars == <<version, PAYPAL_CLIENT_ID, PAYPAL_CLIENT_SECRET, now, req>>

Versions == {1, 2}
PAYPAL_MODE == Str(<<"sandbox">>)
EnvVals == {Undefined, Str(<<"a">>)}

Reqs == 1..MaxReq

\* The routes each version registers.
Routes(v) ==
  IF v = 1
  THEN {"health", "config", "generate-client-token", "payment-tokens/:customerId",
        "orders", "orders/:orderId/capture"}
  ELSE {"config", "generate-client-token", "setup-tokens", "payment-tokens",
        "payment-tokens/:customerId", "orders", "orders/:orderId/capture"}

NoInput ==
  [customer_id |-> Undefined, customerId |-> Undefined, vaultId |-> Undefined,
   setupTokenId |-> Undefined, orderId |-> Undefined, host |-> "none"]

\* A request that has not arrived yet.  `accessToken` is the handler's local
\* variable; `calls` and `replies` are the upstream calls it issued and what
\* came back; `resp` the responses written to `res`; `logs` its console.error
\* lines.
NoRequest ==
  [ep |-> "none", pc |-> "idle", input |-> NoInput, accessToken |-> "unset",
   calls |-> <<>>, replies |-> <<>>, resp |-> <<>>, logs |-> <<>>]

Init ==
  /\ version \in Versions
  /\ PAYPAL_CLIENT_ID \in EnvVals
  /\ PAYPAL_CLIENT_SECRET \in EnvVals
  /\ now = 0
  /\ req = [r \in Reqs |-> NoRequest]

\* Request r arrives on route ep: the next free slot, on a registered route.
Arrives(r, ep) ==
  /\ req[r].pc = "idle"
  /\ \A q \in 1..(r - 1) : req[q].pc # "idle"
  /\ ep \in Routes(version)

Respond(rq, status, body) ==
  [rq EXCEPT !.resp = Append(@, [status |-> status, body |-> body]), !.pc = "done"]

ConsoleError(rq, line) == [rq EXCEPT !.logs = Append(@, line)]

\* A token fetch that is issued a second time.
FetchAccessTokenTwice(rq) ==
  [rq EXCEPT !.calls = @ \o <<AccessTokenCall, AccessTokenCall>>, !.pc = "awaitToken"]

\* `await getPayPalAccessToken()`: the handler issues the token call and waits.
FetchAccessToken(rq) ==
  [rq EXCEPT !.calls = Append(@, AccessTokenCall), !.pc = "awaitToken"]

Begin(ep, input) == [NoRequest EXCEPT !.ep = ep, !.input = input]

\* ---------------------------------------------------------------------------
\* Failure paths.
\* ---------------------------------------------------------------------------
\* The first version's getPayPalAccessToken and generateUserIdToken catch the
\* axios error, log it and throw a new Error with a fixed message; the second
\* version's let the axios error through.
ThrownByTokenService(v, ep, err) ==
  IF v = 1
  THEN LocalError(IF ep = "generate-client-token"
                  THEN "User ID Token generation failed"
                  ELSE "PayPal authentication failed")
  ELSE err

LoggedByTokenService(v, rq, err) ==
  IF v = 1 THEN ConsoleError(rq, ErrorDetail(err)) ELSE rq

\* The fixed `error` text of a handler's catch block.
FailureText(ep) ==
  CASE ep = "generate-client-token" -> "Client Token generation failed"
    [] ep = "setup-tokens" -> "Setup Token creation failed"
    [] ep = "payment-tokens" -> "Payment Token creation failed"
    [] ep = "payment-tokens/:customerId" -> "Payment Tokens fetch failed"
    [] ep = "orders" -> "Order creation failed"
    [] OTHER -> "Capture failed"

\* The console.error lines of a handler's catch block.
CatchLines(v, ep, error) ==
  CASE v = 1 /\ ep = "generate-client-token" -> <<error.message>>
    [] v = 2 /\ ep \in {"payment-tokens/:customerId", "orders/:orderId/capture"} -> <<>>
    [] OTHER -> <<ErrorDetail(error)>>

\* The JSON body a handler's catch block sends with status 500.
ErrorEnvelope(v, ep, error) ==
  CASE v = 1 /\ ep = "generate-client-token" ->
         [error |-> FailureText(ep), details |-> error.message]
    [] v = 1 ->
         [error |-> FailureText(ep), details |-> ErrorDetail(error)]
    [] v = 2 /\ ep = "generate-client-token" ->
         [error |-> error.message]
    [] v = 2 /\ ep \in {"setup-tokens", "payment-tokens"} ->
         [error |-> FailureText(ep), details |-> ErrorDetail(error)]
    [] OTHER ->
         [error |-> ErrorDetail(error)]

Catch(v, rq, error) ==
  Respond([rq EXCEPT !.logs = @ \o CatchLines(v, rq.ep, error)],
          500, ErrorEnvelope(v, rq.ep, error))

\* What came back from an upstream call.
Fulfilled(d) == [ok |-> TRUE, data |-> d, error |-> LocalError("none")]
Rejected(err) == [ok |-> FALSE, data |-> "none", error |-> err]

\* ---------------------------------------------------------------------------
\* Handlers, from their entry to their first await or to their response.
\* ---------------------------------------------------------------------------
\* app.get('/health') (first version only)
Health(r) ==
  /\ Arrives(r, "health")
  /\ req' = [req EXCEPT ![r] =
       Respond(Begin("health", NoInput), 200,
               [status |-> "OK", mode |-> PAYPAL_MODE,
                clientIdConfigured |-> Truthy(PAYPAL_CLIENT_ID),
                clientSecretConfigured |-> Truthy(PAYPAL_CLIENT_SECRET)])]
  /\ UNCHANGED <<version, PAYPAL_CLIENT_ID, PAYPAL_CLIENT_SECRET, now>>

\* The response of app.get('/api/config'): the first version checks the
\* client id, the second does not.
ConfigResponse(v, rq) ==
  IF v = 1 /\ ~Truthy(PAYPAL_CLIENT_ID)
  THEN Respond(rq, 500, [error |-> "PayPal Client ID is not set"])
  ELSE Respond(rq, 200, JsonObject([clientId |-> PAYPAL_CLIENT_ID, mode |-> PAYPAL_MODE]))

Config(r) ==
  /\ Arrives(r, "config")
  /\ req' = [req EXCEPT ![r] = ConfigResponse(version, Begin("config", NoInput))]
  /\ UNCHANGED <<version, PAYPAL_CLIENT_ID, PAYPAL_CLIENT_SECRET, now>>

\* app.get('/api/generate-client-token'): calls generateUserIdToken.
GenerateClientToken(r) ==
  /\ Arrives(r, "generate-client-token")
  /\ \E customer_id \in QueryVals :
       req' = [req EXCEPT ![r] =
         [Begin("generate-client-token", [NoInput EXCEPT !.customer_id = customer_id])
            EXCEPT !.calls = <<UserIdTokenCall(customer_id)>>, !.pc = "awaitIdToken"]]
  /\ UNCHANGED <<version, PAYPAL_CLIENT_ID, PAYPAL_CLIENT_SECRET, now>>

\* app.post('/api/setup-tokens') (second version only)
SetupTokens(r) ==
  /\ Arrives(r, "setup-tokens")
  /\ \E customerId \in BodyVals, host \in Hosts :
       req' = [req EXCEPT ![r] =
         FetchAccessToken(Begin("setup-tokens",
           [NoInput EXCEPT !.customerId = customerId, !.host = host]))]
  /\ UNCHANGED <<version, PAYPAL_CLIENT_ID, PAYPAL_CLIENT_SECRET, now>>

\* A validation that only rejects an absent setupTokenId.
SetupTokenIdAbsent(setupTokenId) == setupTokenId = Undefined

\* `if (!setupTokenId)` of app.post('/api/payment-tokens').
SetupTokenIdMissing(setupTokenId) == ~Truthy(setupTokenId)

\* app.post('/api/payment-tokens') (second version only)
PaymentTokens(r) ==
  /\ Arrives(r, "payment-tokens")
  /\ \E setupTokenId \in BodyVals :
       LET rq == Begin("payment-tokens", [NoInput EXCEPT !.setupTokenId = setupTokenId])
       IN req' = [req EXCEPT ![r] =
            IF SetupTokenIdMissing(setupTokenId)
            THEN Respond(rq, 400, [error |-> "setupTokenId is required"])
            ELSE FetchAccessToken(rq)]
  /\ UNCHANGED <<version, PAYPAL_CLIENT_ID, PAYPAL_CLIENT_SECRET, now>>

\* app.get('/api/payment-tokens/:customerId')
ListPaymentTokens(r) ==
  /\ Arrives(r, "payment-tokens/:customerId")
  /\ \E customerId \in PathVals :
       req' = [req EXCEPT ![r] =
         FetchAccessToken(Begin("payment-tokens/:customerId",
           [NoInput EXCEPT !.customerId = customerId]))]
  /\ UNCHANGED <<version, PAYPAL_CLIENT_ID, PAYPAL_CLIENT_SECRET, now>>

\* app.post('/api/orders')
Orders(r) ==
  /\ Arrives(r, "orders")
  /\ \E customerId \in BodyVals, vaultId \in BodyVals, host \in Hosts :
       req' = [req EXCEPT ![r] =
         FetchAccessToken(Begin("orders",
           [NoInput EXCEPT !.customerId = customerId, !.vaultId = vaultId, !.host = host]))]
  /\ UNCHANGED <<version, PAYPAL_CLIENT_ID, PAYPAL_CLIENT_SECRET, now>>

\* app.post('/api/orders/:orderId/capture')
Capture(r) ==
  /\ Arrives(r, "orders/:orderId/capture")
  /\ \E orderId \in PathVals :
       req' = [req EXCEPT ![r] =
         FetchAccessToken(Begin("orders/:orderId/capture",
           [NoInput EXCEPT !.orderId = orderId]))]
  /\ UNCHANGED <<version, PAYPAL_CLIENT_ID, PAYPAL_CLIENT_SECRET, now>>

\* ---------------------------------------------------------------------------
\* Handlers, resumed when an awaited upstream call settles.
\* ---------------------------------------------------------------------------
\* generateUserIdToken's call settles; the handler responds.
IdTokenSettled(r) ==
  /\ req[r].pc = "awaitIdToken"
  /\ \/ \E idToken \in IdTokens :
          req' = [req EXCEPT ![r] =
            Respond([@ EXCEPT !.replies = Append(@, Fulfilled(idToken))],
                    200, [id_token |-> idToken])]
     \/ \E err \in Failures :
          req' = [req EXCEPT ![r] =
            Catch(version,
                  LoggedByTokenService(version,
                    [@ EXCEPT !.replies = Append(@, Rejected(err))], err),
                  ThrownByTokenService(version, req[r].ep, err))]
  /\ UNCHANGED <<version, PAYPAL_CLIENT_ID, PAYPAL_CLIENT_SECRET, now>>

\* A token shared by the requests: the one the earliest request obtained.
SharedAccessToken(rq) ==
  LET holders == {q \in Reqs : req[q].accessToken # "unset"}
  IN IF holders = {} THEN rq.accessToken
     ELSE req[CHOOSE q \in holders : \A o \in holders : q <= o].accessToken

\* The token a handler puts in `Authorization: Bearer ${accessToken}`: its
\* own local constant.
AccessTokenOf(rq) == rq.accessToken

\* The call a handler issues once it holds the access token.
BusinessCall(rq, t) ==
  CASE rq.ep = "setup-tokens" ->
         SetupTokenCall(AccessTokenOf(rq), rq.input.customerId, rq.input.host, t)
    [] rq.ep = "payment-tokens" ->
         PaymentTokenCall(AccessTokenOf(rq), rq.input.setupTokenId, t)
    [] rq.ep = "payment-tokens/:customerId" ->
         ListPaymentTokensCall(AccessTokenOf(rq), rq.input.customerId)
    [] rq.ep = "orders" ->
         OrderCall(AccessTokenOf(rq), rq.input.customerId, rq.input.vaultId, rq.input.host, t)
    [] OTHER ->
         CaptureCall(AccessTokenOf(rq), rq.input.orderId, t)

\* The handlers that read Date.now() for a PayPal-Request-Id.
ReadsClock(ep) == ep # "payment-tokens/:customerId"

\* getPayPalAccessToken's call settles: with a token the handler builds and
\* issues its business call, otherwise its catch block responds.
AccessTokenSettled(r) ==
  /\ req[r].pc = "awaitToken"
  /\ \/ \E token \in Tokens, t \in now..MaxClock :
          /\ (~ReadsClock(req[r].ep)) => t = now
          /\ LET rq == [req[r] EXCEPT !.replies = Append(@, Fulfilled(token)),
                                      !.accessToken = token]
             IN req' = [req EXCEPT ![r] =
                  [rq EXCEPT !.calls = Append(@, BusinessCall(rq, t)), !.pc = "awaitBiz"]]
          /\ now' = t
          /\ UNCHANGED <<version, PAYPAL_CLIENT_ID, PAYPAL_CLIENT_SECRET>>
     \/ \E err \in Failures :
          /\ req' = [req EXCEPT ![r] =
               Catch(version,
                     LoggedByTokenService(version,
                       [@ EXCEPT !.replies = Append(@, Rejected(err))], err),
                     ThrownByTokenService(version, req[r].ep, err))]
          /\ UNCHANGED <<version, PAYPAL_CLIENT_ID, PAYPAL_CLIENT_SECRET, now>>

\* The business call settles: the handler passes the data through, or its
\* catch block responds.
UpstreamSettled(r) ==
  /\ req[r].pc = "awaitBiz"
  /\ \/ \E data \in Datas :
          req' = [req EXCEPT ![r] =
            Respond([@ EXCEPT !.replies = Append(@, Fulfilled(data))], 200, data)]
     \/ \E err \in Failures :
          req' = [req EXCEPT ![r] =
            Catch(version, [@ EXCEPT !.replies = Append(@, Rejected(err))], err)]
  /\ UNCHANGED <<version, PAYPAL_CLIENT_ID, PAYPAL_CLIENT_SECRET, now>>

Next ==
  \E r \in Reqs :
    \/ Health(r)
    \/ Config(r)
    \/ GenerateClientToken(r)
    \/ SetupTokens(r)
    \/ PaymentTokens(r)
    \/ ListPaymentTokens(r)
    \/ Orders(r)
    \/ Capture(r)
    \/ IdTokenSettled(r)
    \/ AccessTokenSettled(r)
    \/ UpstreamSettled(r)

Spec == Init /\ [][Next]_vars

\* ---------------------------------------------------------------------------
\* Properties.
\* ---------------------------------------------------------------------------
TokenDependent ==
  {"setup-tokens", "payment-tokens", "payment-tokens/:customerId", "orders",
   "orders/:orderId/capture"}

\* A caller supplied x: a non-empty string (absent, null and "" are not).
Supplied(x) == x \notin {Undefined, Null, Str(<<>>)}

\* The remote endpoint each route is a relay for.
OwnKind(ep) ==
  CASE ep = "setup-tokens" -> "vault/setup-tokens"
    [] ep = "payment-tokens" -> "vault/payment-tokens"
    [] ep = "payment-tokens/:customerId" -> "vault/payment-tokens"
    [] ep = "orders" -> "checkout/orders"
    [] OTHER -> "checkout/orders/capture"

\* C1: a POST /api/payment-tokens whose body has no setupTokenId (absent, null
\* or empty) is answered with one HTTP 400 and causes no upstream call, neither
\* the token fetch nor the vault call.
C1_MissingSetupTokenId ==
  \A r \in Reqs :
    (req[r].ep = "payment-tokens" /\ ~Supplied(req[r].input.setupTokenId))
      => /\ req[r].calls = <<>>
         /\ req[r].pc = "done"
         /\ Len(req[r].resp) = 1
         /\ req[r].resp[1].status = 400

C1_Witness ==
  \E r \in Reqs :
    /\ req[r].ep = "payment-tokens"
    /\ req[r].input.setupTokenId = Str(<<>>)
    /\ req[r].pc = "done"
    /\ req[r].resp[1].status = 400

\* C2: when the access-token endpoint answers non-2xx, every token-dependent
\* endpoint answers HTTP 500 with the upstream error body under `details`.
C2_TokenFailureDetails ==
  \A r \in Reqs :
    (/\ req[r].ep \in TokenDependent
     /\ Len(req[r].replies) >= 1
     /\ ~req[r].replies[1].ok
     /\ req[r].replies[1].error.hasResponse)
      => /\ Len(req[r].resp) = 1
         /\ req[r].resp[1].status = 500
         /\ "details" \in DOMAIN req[r].resp[1].body
         /\ req[r].resp[1].body.details = req[r].replies[1].error.data

\* C3: the payload of POST /api/orders has exactly one of two shapes: with a
\* vaultId, payment_source is the token {id: vaultId, type:
\* PAYMENT_METHOD_TOKEN} and nothing of the redirect flow; without one, it is
\* the PayPal redirect flow (experience_context with return and cancel urls)
\* with store_in_vault ON_SUCCESS.
C3_OrderPayloadShape ==
  \A r \in Reqs :
    (req[r].ep = "orders" /\ Len(req[r].calls) = 2)
      => LET p == req[r].calls[2].data
             src == p.payment_source
         IN /\ DOMAIN p = {"intent", "purchase_units", "payment_source"}
            /\ IF Supplied(req[r].input.vaultId)
               THEN /\ DOMAIN src = {"token"}
                    /\ src.token = [id |-> req[r].input.vaultId, type |-> "PAYMENT_METHOD_TOKEN"]
               ELSE /\ DOMAIN src = {"paypal"}
                    /\ {"return_url", "cancel_url"} \subseteq DOMAIN src.paypal.experience_context
                    /\ src.paypal.experience_context.return_url = <<req[r].input.host, "/success">>
                    /\ src.paypal.experience_context.cancel_url = <<req[r].input.host, "/cancel">>
                    /\ src.paypal.attributes.vault.store_in_vault = "ON_SUCCESS"

C3_Witness ==
  \E r1, r2 \in Reqs :
    /\ req[r1].ep = "orders" /\ Len(req[r1].calls) = 2
    /\ Supplied(req[r1].input.vaultId)
    /\ req[r2].ep = "orders" /\ Len(req[r2].calls) = 2
    /\ ~Supplied(req[r2].input.vaultId)

\* C4: the body of generateUserIdToken's call has target_customer_id equal to
\* the customer_id of the query when one is supplied and no target_customer_id
\* otherwise; it asks for response_type=id_token; the browser gets {id_token}.
C4_TargetCustomerId ==
  \A r \in Reqs :
    (req[r].ep = "generate-client-token")
      => LET body == req[r].calls[1].data
         IN /\ FormValues(body, "response_type") = {<<"id_token">>}
            /\ IF Supplied(req[r].input.customer_id)
               THEN FormValues(body, "target_customer_id") = {req[r].input.customer_id.chars}
               ELSE FormValues(body, "target_customer_id") = {}
            /\ (Len(req[r].replies) = 1 /\ req[r].replies[1].ok)
                 => req[r].resp = <<[status |-> 200, body |-> [id_token |-> req[r].replies[1].data]]>>

\* C5: the customer binding goes upstream exactly when a customerId was
\* supplied: as vault.customer_id of an order without vaultId, as customer.id of
\* a setup token; an order with a vaultId carries no customer id.
C5_CustomerBinding ==
  \A r \in Reqs :
    /\ (req[r].ep = "orders" /\ Len(req[r].calls) = 2 /\ ~Supplied(req[r].input.vaultId))
         => LET vault == req[r].calls[2].data.payment_source.paypal.attributes.vault
            IN IF Supplied(req[r].input.customerId)
               THEN "customer_id" \in DOMAIN vault /\ vault.customer_id = req[r].input.customerId
               ELSE "customer_id" \notin DOMAIN vault
    /\ (req[r].ep = "orders" /\ Len(req[r].calls) = 2 /\ Supplied(req[r].input.vaultId))
         => LET p == req[r].calls[2].data
            IN /\ DOMAIN p = {"intent", "purchase_units", "payment_source"}
               /\ DOMAIN p.payment_source = {"token"}
               /\ DOMAIN p.payment_source.token = {"id", "type"}
    /\ (req[r].ep = "setup-tokens" /\ Len(req[r].calls) = 2)
         => LET p == req[r].calls[2].data
            IN IF Supplied(req[r].input.customerId)
               THEN "customer" \in DOMAIN p /\ p.customer = [id |-> req[r].input.customerId]
               ELSE "customer" \notin DOMAIN p

C5_Witness ==
  \E r1, r2 \in Reqs :
    /\ req[r1].ep = "orders" /\ Len(req[r1].calls) = 2
    /\ req[r1].input.vaultId = Undefined /\ req[r1].input.customerId = Undefined
    /\ req[r2].ep = "setup-tokens" /\ Len(req[r2].calls) = 2
    /\ Supplied(req[r2].input.customerId)

\* C6: no retries.  The upstream calls of a request to a token-dependent
\* endpoint are a prefix of [token fetch, the endpoint's own business call]; the
\* business call follows a successful token fetch; a failed call is the
\* request's last and ends it with an error response.
C6_NoRetries ==
  \A r \in Reqs :
    (req[r].ep \in TokenDependent)
      => LET calls == req[r].calls
             replies == req[r].replies
         IN /\ Len(calls) <= 2
            /\ Len(replies) <= Len(calls)
            /\ Len(calls) >= 1 => calls[1] = AccessTokenCall
            /\ Len(calls) = 2 => /\ calls[2].kind = OwnKind(req[r].ep)
                                 /\ Len(replies) >= 1 /\ replies[1].ok
            /\ \A i \in 1..Len(replies) :
                 ~replies[i].ok => /\ i = Len(replies)
                                   /\ Len(calls) = i
                                   /\ req[r].pc = "done"
                                   /\ Len(req[r].resp) = 1
                                   /\ req[r].resp[1].status >= 400

C6_Witness ==
  \E r1, r2 \in Reqs :
    /\ req[r1].ep = "orders" /\ Len(req[r1].replies) = 2 /\ ~req[r1].replies[2].ok
    /\ req[r1].pc = "done"
    /\ req[r2].ep \in TokenDependent /\ Len(req[r2].replies) = 1 /\ ~req[r2].replies[1].ok
    /\ req[r2].pc = "done"

\* C7: every failure of an upstream call is logged and ends the request with
\* exactly one response, a JSON error envelope with status 500 or 400.
C7_FailuresLoggedAndReported ==
  \A r \in Reqs :
    (\E i \in 1..Len(req[r].replies) : ~req[r].replies[i].ok)
      => /\ Len(req[r].logs) >= 1
         /\ Len(req[r].resp) = 1
         /\ req[r].resp[1].status \in {400, 500}
         /\ "error" \in DOMAIN req[r].resp[1].body

\* C8: with the credentials (client id and secret) unset GET /api/config
\* answers HTTP 500, with them set 200 {clientId, mode}; it calls nothing
\* upstream; GET /health answers 200 with the two booleans.
C8_ConfigError ==
  \A r \in Reqs :
    /\ (req[r].ep = "config")
         => /\ req[r].calls = <<>>
            /\ Len(req[r].resp) = 1
            /\ (Supplied(PAYPAL_CLIENT_ID) /\ Supplied(PAYPAL_CLIENT_SECRET))
                 => /\ req[r].resp[1].status = 200
                    /\ req[r].resp[1].body = [clientId |-> PAYPAL_CLIENT_ID, mode |-> PAYPAL_MODE]
            /\ (~Supplied(PAYPAL_CLIENT_ID) /\ ~Supplied(PAYPAL_CLIENT_SECRET))
                 => req[r].resp[1].status = 500
    /\ (req[r].ep = "health")
         => /\ req[r].calls = <<>>
            /\ Len(req[r].resp) = 1
            /\ req[r].resp[1].status = 200
            /\ req[r].resp[1].body.clientIdConfigured \in BOOLEAN
            /\ req[r].resp[1].body.clientSecretConfigured \in BOOLEAN

\* An upstream call without the timestamp of its PayPal-Request-Id.
Untimed(c) ==
  [kind |-> c.kind, method |-> c.method,
   url |-> IF "url" \in DOMAIN c THEN c.url ELSE <<>>,
   Authorization |-> c.headers.Authorization,
   hasData |-> "data" \in DOMAIN c]

\* C9: requests are independent.  A request's business call carries the token
\* its own token fetch returned; two requests of the same route with the same
\* inputs and the same replies to their own calls have issued the same calls and
\* sent the same responses, whatever else happened; a capture is forwarded for
\* its orderId once its token is there.
C9_Independent ==
  /\ \A r \in Reqs :
       (req[r].ep \in TokenDependent /\ Len(req[r].calls) = 2)
         => /\ req[r].calls[1] = AccessTokenCall
            /\ req[r].replies[1].ok
            /\ req[r].calls[2].headers.Authorization = Bearer(req[r].replies[1].data)
  /\ \A r \in Reqs :
       (req[r].ep = "orders/:orderId/capture" /\ Len(req[r].replies) >= 1 /\ req[r].replies[1].ok)
         => /\ Len(req[r].calls) = 2
            /\ req[r].calls[2].url = <<"/v2/checkout/orders/">> \o req[r].input.orderId.chars \o <<"/capture">>
  /\ \A r1, r2 \in Reqs :
       (/\ req[r1].ep = req[r2].ep
        /\ req[r1].input = req[r2].input
        /\ req[r1].replies = req[r2].replies
        /\ req[r1].pc = req[r2].pc)
         => /\ req[r1].resp = req[r2].resp
            /\ req[r1].logs = req[r2].logs
            /\ Len(req[r1].calls) = Len(req[r2].calls)
            /\ \A i \in 1..Len(req[r1].calls) :
                 /\ Untimed(req[r1].calls[i]) = Untimed(req[r2].calls[i])
                 /\ ("data" \in DOMAIN req[r1].calls[i]) => req[r1].calls[i].data = req[r2].calls[i].data

C9_Witness ==
  \E r1, r2 \in Reqs :
    /\ r1 < r2
    /\ req[r1].ep = "orders/:orderId/capture" /\ req[r2].ep = "orders/:orderId/capture"
    /\ req[r1].pc = "awaitBiz" /\ req[r2].pc = "done"
    /\ Len(req[r2].replies) = 2 /\ req[r2].replies[2].ok
    /\ req[r1].replies[1].data # req[r2].replies[1].data

\* C10: every upstream create or capture call carries a PayPal-Request-Id, and
\* two such calls of two inbound requests to the same endpoint carry different
\* ones.
C10_RequestIdsDiffer ==
  /\ \A r \in Reqs :
       (req[r].ep \in TokenDependent \ {"payment-tokens/:customerId"} /\ Len(req[r].calls) = 2)
         => "PayPalRequestId" \in DOMAIN req[r].calls[2].headers
  /\ \A r1, r2 \in Reqs :
       (/\ r1 # r2
        /\ req[r1].ep = req[r2].ep
        /\ req[r1].ep \in TokenDependent \ {"payment-tokens/:customerId"}
        /\ Len(req[r1].calls) = 2 /\ Len(req[r2].calls) = 2)
         => req[r1].calls[2].headers.PayPalRequestId # req[r2].calls[2].headers.PayPalRequestId
====
